---------------------------- MODULE Spec2Model ----------------------------
(***************************************************************************)
(* A model of tcpSocketIO (src/src/index.ts, lines 1-274: the current      *)
(* stream-transport engine).  Text is modelled as a sequence of            *)
(* one-character strings, so that framing, the id/JSON split and the JSON  *)
(* conversion are computed as the code computes them.                      *)
(***************************************************************************)
EXTENDS Integers, Sequences, FiniteSets, TLC

(***************************************************************************)
(* Characters and text                                                     *)
(***************************************************************************)
\* U+0000 and U+000A, written as atoms
NUL == "NUL"
LF == "LF"

Digits == <<"0", "1", "2", "3", "4", "5", "6", "7", "8", "9">>

IsDigit(c) == \E k \in 1..10 : Digits[k] = c

DigitVal(c) == (CHOOSE k \in 1..10 : Digits[k] = c) - 1

\* const splitter = '/5#$%^2+=/' ; splitterRegex matches exactly this token
splitter == <<"/", "5", "#", "$", "%", "^", "2", "+", "=", "/">>

\* does pattern p occur in t at position i
MatchesAt(t, p, i) ==
    /\ i + Len(p) - 1 <= Len(t)
    /\ \A k \in 1..Len(p) : t[i + k - 1] = p[k]

(***************************************************************************)
(* JSON values: strings, naturals and booleans, and flat arrays of them.   *)
(***************************************************************************)
Str(s) == [t |-> "str", s |-> s, n |-> 0, b |-> FALSE]
Num(n) == [t |-> "num", s |-> <<>>, n |-> n, b |-> FALSE]
Bool(b) == [t |-> "bool", s |-> <<>>, n |-> 0, b |-> b]

\* decimal text of a natural number
RECURSIVE NatToText(_)
NatToText(n) ==
    IF n < 10 THEN <<Digits[n + 1]>>
    ELSE Append(NatToText(n \div 10), Digits[(n % 10) + 1])

\* Number(match[1]) on a run of decimal digits
RECURSIVE TextToNat(_)
TextToNat(d) ==
    IF d = <<>> THEN 0
    ELSE 10 * TextToNat(SubSeq(d, 1, Len(d) - 1)) + DigitVal(d[Len(d)])

\* JSON.stringify of the characters of a string (quotes, backslashes and
\* control characters are escaped; '/', '#', '$' ... are not)
RECURSIVE QuoteChars(_)
QuoteChars(s) ==
    IF s = <<>> THEN <<>>
    ELSE LET c == Head(s)
             e == IF c = "\"" THEN <<"\\", "\"">>
                  ELSE IF c = "\\" THEN <<"\\", "\\">>
                  ELSE IF c = LF THEN <<"\\", "n">>
                  ELSE IF c = NUL THEN <<"\\", "u", "0", "0", "0", "0">>
                  ELSE <<c>>
         IN  e \o QuoteChars(Tail(s))

StringifyValue(v) ==
    IF v.t = "str" THEN <<"\"">> \o QuoteChars(v.s) \o <<"\"">>
    ELSE IF v.t = "num" THEN NatToText(v.n)
    ELSE IF v.b THEN <<"t", "r", "u", "e">>
    ELSE <<"f", "a", "l", "s", "e">>

RECURSIVE StringifyElems(_)
StringifyElems(a) ==
    IF a = <<>> THEN <<>>
    ELSE IF Len(a) = 1 THEN StringifyValue(a[1])
    ELSE StringifyValue(a[1]) \o <<",">> \o StringifyElems(Tail(a))

\* JSON.stringify(message) of an argument array
JSONstringify(a) == <<"[">> \o StringifyElems(a) \o <<"]">>

(***************************************************************************)
(* JSON.parse, over the same fragment.  A parse step returns the value and *)
(* the position after it, or ok = FALSE (a SyntaxError).                   *)
(***************************************************************************)
ParseFail == [ok |-> FALSE, v |-> Num(0), j |-> 0]

RECURSIVE SkipSpaces(_, _)
SkipSpaces(t, i) ==
    IF i <= Len(t) /\ t[i] \in {" ", LF} THEN SkipSpaces(t, i + 1) ELSE i

\* i is the position after the opening quote
RECURSIVE ScanString(_, _, _)
ScanString(t, i, acc) ==
    IF i > Len(t) THEN ParseFail
    ELSE IF t[i] = "\"" THEN [ok |-> TRUE, v |-> Str(acc), j |-> i + 1]
    ELSE IF t[i] = "\\" THEN
        IF i + 1 > Len(t) THEN ParseFail
        ELSE IF t[i + 1] \in {"\"", "\\", "/"}
            THEN ScanString(t, i + 2, Append(acc, t[i + 1]))
        ELSE IF t[i + 1] = "n" THEN ScanString(t, i + 2, Append(acc, LF))
        ELSE IF MatchesAt(t, <<"u", "0", "0", "0", "0">>, i + 1)
            THEN ScanString(t, i + 6, Append(acc, NUL))
        ELSE ParseFail
    ELSE IF t[i] \in {NUL, LF} THEN ParseFail
    ELSE ScanString(t, i + 1, Append(acc, t[i]))

RECURSIVE DigitRunEnd(_, _)
\* the last position of the run of digits that starts at i
DigitRunEnd(t, i) ==
    IF i + 1 <= Len(t) /\ IsDigit(t[i + 1]) THEN DigitRunEnd(t, i + 1) ELSE i

ScanNumber(t, i) ==
    IF t[i] = "0" THEN [ok |-> TRUE, v |-> Num(0), j |-> i + 1]
    ELSE LET e == DigitRunEnd(t, i)
         IN  [ok |-> TRUE, v |-> Num(TextToNat(SubSeq(t, i, e))), j |-> e + 1]

ParseScalar(t, i) ==
    IF i > Len(t) THEN ParseFail
    ELSE IF t[i] = "\"" THEN ScanString(t, i + 1, <<>>)
    ELSE IF IsDigit(t[i]) THEN ScanNumber(t, i)
    ELSE IF MatchesAt(t, <<"t", "r", "u", "e">>, i)
        THEN [ok |-> TRUE, v |-> Bool(TRUE), j |-> i + 4]
    ELSE IF MatchesAt(t, <<"f", "a", "l", "s", "e">>, i)
        THEN [ok |-> TRUE, v |-> Bool(FALSE), j |-> i + 5]
    ELSE ParseFail

ArrFail == [ok |-> FALSE, a |-> <<>>, j |-> 0]

\* i is the position where the next element is expected
RECURSIVE ParseElems(_, _, _)
ParseElems(t, i, acc) ==
    LET r == ParseScalar(t, SkipSpaces(t, i))
        k == SkipSpaces(t, r.j)
    IN  IF ~r.ok \/ k > Len(t) THEN ArrFail
        ELSE IF t[k] = "]" THEN [ok |-> TRUE, a |-> Append(acc, r.v), j |-> k + 1]
        ELSE IF t[k] = "," THEN ParseElems(t, k + 1, Append(acc, r.v))
        ELSE ArrFail

ParseArray(t, i) ==
    LET k == SkipSpaces(t, i + 1)
    IN  IF k <= Len(t) /\ t[k] = "]" THEN [ok |-> TRUE, a |-> <<>>, j |-> k + 1]
        ELSE ParseElems(t, k, <<>>)

\* JSON.parse(text): ok = FALSE is a SyntaxError; isArr tells an array (arr)
\* from a scalar (val)
JSONparse(t) ==
    LET i == SkipSpaces(t, 1)
    IN  IF i > Len(t) THEN [ok |-> FALSE, isArr |-> FALSE, arr |-> <<>>, val |-> Num(0)]
        ELSE IF t[i] = "[" THEN
            LET r == ParseArray(t, i)
            IN  [ok |-> r.ok /\ SkipSpaces(t, r.j) > Len(t), isArr |-> TRUE,
                 arr |-> r.a, val |-> Num(0)]
        ELSE
            LET r == ParseScalar(t, i)
            IN  [ok |-> r.ok /\ SkipSpaces(t, r.j) > Len(t), isArr |-> FALSE,
                 arr |-> <<>>, val |-> r.v]


(***************************************************************************)
(* Framing and decoding                                                    *)
(***************************************************************************)
\* message.split(splitterRegex): the pieces between the leftmost,
\* non-overlapping occurrences of the delimiter (empty pieces included)
RECURSIVE SplitFrom(_, _, _)
SplitFrom(t, i, start) ==
    IF i > Len(t) THEN <<SubSeq(t, start, Len(t))>>
    ELSE IF MatchesAt(t, splitter, i)
        THEN <<SubSeq(t, start, i - 1)>>
             \o SplitFrom(t, i + Len(splitter), i + Len(splitter))
    ELSE SplitFrom(t, i + 1, start)

SplitMessages(t) == SplitFrom(t, 1, 1)

\* `${messageId}${arrStr}${splitter}`
Frame(messageId, message) ==
    NatToText(messageId) \o JSONstringify(message) \o splitter

\* the position of the first digit of t, 0 when there is none
FirstDigit(t) ==
    IF \E i \in 1..Len(t) : IsDigit(t[i])
    THEN CHOOSE i \in 1..Len(t) :
            IsDigit(t[i]) /\ \A k \in 1..(i - 1) : ~IsDigit(t[k])
    ELSE 0

\* the last position of the line that holds position i ('.' matches no LF)
RECURSIVE LineEnd(_, _)
LineEnd(t, i) ==
    IF i + 1 <= Len(t) /\ t[i + 1] # LF THEN LineEnd(t, i + 1) ELSE i

\* message.match(/(\d+)(.*)/): the pattern is not anchored, so the match
\* starts at the first digit anywhere in the message
RegexMatch(t) ==
    LET i == FirstDigit(t)
        e == DigitRunEnd(t, i)
    IN  IF i = 0 THEN [ok |-> FALSE, id |-> <<>>, rest |-> <<>>]
        ELSE [ok |-> TRUE, id |-> SubSeq(t, i, e),
              rest |-> SubSeq(t, e + 1, LineEnd(t, e))]

RECURSIVE TrimLeft(_)
TrimLeft(s) ==
    IF s # <<>> /\ Head(s) \in {" ", LF} THEN TrimLeft(Tail(s)) ELSE s

RECURSIVE TrimRight(_)
TrimRight(s) ==
    IF s # <<>> /\ s[Len(s)] \in {" ", LF}
    THEN TrimRight(SubSeq(s, 1, Len(s) - 1)) ELSE s

Trim(s) == TrimRight(TrimLeft(s))

removeInvisibleSymbols(s) == SelectSeq(s, LAMBDA c : c # NUL)

\* lines 90-98 of messageHandler: the id and the decoded array of a message.
\* err: "match" (no digit run), "json" (JSON.parse threw), "" (decoded)
Decode(message) ==
    LET m == RegexMatch(message)
        j == JSONparse(removeInvisibleSymbols(Trim(m.rest)))
    IN  IF ~m.ok THEN [err |-> "match", id |-> 0, json |-> j]
        ELSE IF ~j.ok THEN [err |-> "json", id |-> TextToNat(m.id), json |-> j]
        ELSE [err |-> "", id |-> TextToNat(m.id), json |-> j]

(***************************************************************************)
(* Bounds of the model and the finite sets inputs are drawn from           *)
(***************************************************************************)
\* randomNumber(0, 2147483647) draws from 0..MaxId in the model
MaxId == 2
\* sendTo calls that supply a response handler, per behaviour
MaxRequests == 2
\* start() calls per behaviour
MaxStarts == 2
\* connect / disconnect callbacks registered per behaviour
MaxCallbacks == 2
\* length of a listener list
MaxListeners == 2

\* transport connections the environment may open
Sockets == {"s1", "s2"}
\* values uuidv4() may return
Uuids == {"u1", "u2"}
\* response handlers passed to sendTo; hThrow throws when it is called
Handlers == {"h1", "hThrow"}
NoCallback == "none"

Throws(fn) == fn \in {"hThrow", "LT", "WT"}

(***************************************************************************)
(* State.  The fields of the tcpSocketIO instance and of its sockets, the  *)
(* pending timers and write completions of the event loop, and history:    *)
(* reqs (one record per sendTo call with a handler), calls (the callbacks  *)
(* the last step invoked), wrote (the frames the last step wrote) and last *)
(* (the last step and its input).  A socket's travelTimeInterval is the    *)
(* interval handle it stores (0: undefined) and live the handles of its    *)
(* intervals that have not been cleared; the k-th 'connection' listener    *)
(* that sees a socket creates the handle k.  A socket's announced is        *)
(* history: a connect callback has been invoked with it.                   *)
(***************************************************************************)
VARIABLES listening, connHandlers, sock, clients, messagesCallbacks, timers,
          writes, listeners, allListeners, connectCallbacks,
          disconnectCallbacks, reqs, calls, wrote, last, cx

vars == <<listening, connHandlers, sock, clients, messagesCallbacks, timers,
          writes, listeners, allListeners, connectCallbacks,
          disconnectCallbacks, reqs, calls, wrote, last, cx>>

\* the state as one record, so that a handler is a function from state to
\* state and handlers compose as they call each other
St ==
    [listening |-> listening, connHandlers |-> connHandlers, sock |-> sock,
     clients |-> clients, messagesCallbacks |-> messagesCallbacks,
     timers |-> timers, writes |-> writes, listeners |-> listeners,
     allListeners |-> allListeners, connectCallbacks |-> connectCallbacks,
     disconnectCallbacks |-> disconnectCallbacks, reqs |-> reqs,
     calls |-> calls, wrote |-> wrote]

Commit(q) ==
    /\ listening' = q.listening
    /\ connHandlers' = q.connHandlers
    /\ sock' = q.sock
    /\ clients' = q.clients
    /\ messagesCallbacks' = q.messagesCallbacks
    /\ timers' = q.timers
    /\ writes' = q.writes
    /\ listeners' = q.listeners
    /\ allListeners' = q.allListeners
    /\ connectCallbacks' = q.connectCallbacks
    /\ disconnectCallbacks' = q.disconnectCallbacks
    /\ reqs' = q.reqs
    /\ calls' = q.calls
    /\ wrote' = q.wrote

\* a step starts with empty records of what it invoked and wrote
Fresh(P) == [P EXCEPT !.calls = <<>>, !.wrote = <<>>]

\* Map.set / Map.delete
MapSet(f, k, v) == [x \in (DOMAIN f) \cup {k} |-> IF x = k THEN v ELSE f[x]]
MapDelete(f, k) == [x \in (DOMAIN f) \ {k} |-> f[x]]
EmptyMap == [x \in {} |-> 0]

\* one invocation of a callback: kind is "handler", "all", "listener",
\* "connect" or "disconnect"; ev holds the event name or the reason, if any
Call(kind, fn, s, ev, args) ==
    [kind |-> kind, fn |-> fn, s |-> s, ev |-> ev, args |-> args]

\* the last step: its operation, the socket or client id it was about, its
\* text input, the pending call of the timer or write, the callback given
Last(op, s, text, rid, cb) ==
    [op |-> op, s |-> s, text |-> text, rid |-> rid, cb |-> cb]

NoLast == Last("init", "", <<>>, 0, "none")

\* the state after construction (lines 25-42)
Init ==
    /\ listening = FALSE
    /\ connHandlers = 0
    /\ sock = [s \in Sockets |->
                 [acc |-> FALSE, clientId |-> "", nh |-> 0,
                  ended |-> FALSE, errored |-> FALSE, closes |-> 0,
                  fired |-> {}, ping |-> -1, travelTimeInterval |-> 0,
                  live |-> {}, announced |-> FALSE]]
    /\ clients = EmptyMap
    /\ messagesCallbacks = EmptyMap
    /\ timers = <<>>
    /\ writes = <<>>
    /\ listeners = EmptyMap
    /\ allListeners = <<>>
    /\ connectCallbacks = <<>>
    /\ disconnectCallbacks = <<>>
    /\ reqs = <<>>
    /\ calls = <<>>
    /\ wrote = <<>>
    /\ last = NoLast
    /\ cx = [pc |-> "idle", id |-> 0, args |-> <<>>, frame |-> <<>>, msgs |-> <<>>]

(***************************************************************************)
(* Small helpers on sequences                                              *)
(***************************************************************************)
\* Array.prototype.indexOf, 1-based; 0 when absent
IndexOf(a, x) ==
    IF \E i \in 1..Len(a) : a[i] = x
    THEN CHOOSE i \in 1..Len(a) : a[i] = x /\ \A k \in 1..(i - 1) : a[k] # x
    ELSE 0

\* a.splice(i, 1)
RemoveAt(a, i) == SubSeq(a, 1, i - 1) \o SubSeq(a, i + 1, Len(a))

\* history: how the pending call rid left the table
Gone(P, rid, how) ==
    [P EXCEPT !.reqs = [@ EXCEPT ![rid].gone = IF @ = "" THEN how ELSE @]]

(***************************************************************************)
(* sendTo (lines 174-205)                                                  *)
(***************************************************************************)
\* lines 182-185: the values the draw-and-retry loop can end with: a draw of
\* 0 ends the loop at once, a positive draw only when the table lacks it
AllocIds(tbl) == {r \in 0..MaxId : ~(r > 0 /\ r \in DOMAIN tbl)}

\* lines 191-198: store the handler under the id and schedule its timeout
RegisterCallback(P, s, messageId, callback) ==
    LET rid == Len(P.reqs) + 1
        P0 == IF messageId \in DOMAIN P.messagesCallbacks
              THEN Gone(P, P.messagesCallbacks[messageId].rid, "replaced")
              ELSE P
    IN  [P0 EXCEPT
           !.messagesCallbacks = MapSet(@, messageId, [h |-> callback, rid |-> rid]),
           !.timers = Append(@, [id |-> messageId, h |-> callback, rid |-> rid]),
           !.reqs = Append(@, [s |-> s, id |-> messageId, h |-> callback,
                               n |-> 0, wrong |-> FALSE, fired |-> FALSE,
                               late |-> FALSE, written |-> "pending",
                               gone |-> ""])]

\* sendTo with the test of line 189 placed after the registration of lines
\* 191-198
sendToRegistersFirst(P, clientId, message, callback, r) ==
    LET messageId == IF callback # NoCallback THEN r ELSE 0
        s == IF clientId \in DOMAIN P.clients THEN P.clients[clientId] ELSE ""
        P1 == IF callback # NoCallback
              THEN RegisterCallback(P, s, messageId, callback)
              ELSE P
    IN  IF ~P.listening THEN P
        ELSE IF clientId \notin DOMAIN P.clients THEN P1
        ELSE [P1 EXCEPT
                !.wrote = Append(@, [s |-> s, text |-> Frame(messageId, message)]),
                !.writes = IF callback # NoCallback
                           THEN Append(@, [s |-> s, id |-> messageId,
                                           rid |-> Len(P1.reqs)])
                           ELSE @]

\* r is the id the loop of lines 182-185 ended with (used only when a
\* callback is given).  Writes whose completion changes nothing (no
\* callback) are not kept in writes.
sendTo(P, clientId, message, callback, r) ==
    LET messageId == IF callback # NoCallback THEN r ELSE 0
    IN  IF ~P.listening THEN P
        ELSE IF clientId \notin DOMAIN P.clients THEN P
        ELSE LET s == P.clients[clientId]
                 P1 == IF callback # NoCallback
                       THEN RegisterCallback(P, s, messageId, callback)
                       ELSE P
             IN  [P1 EXCEPT
                    !.wrote = Append(@, [s |-> s, text |-> Frame(messageId, message)]),
                    !.writes = IF callback # NoCallback
                               THEN Append(@, [s |-> s, id |-> messageId,
                                               rid |-> Len(P1.reqs)])
                               ELSE @]

\* the timeout callback without the comparison of line 195
TimeoutRemovesAnyHandler(tbl, messageId, callback) ==
    messageId \in DOMAIN tbl

\* lines 193-197: the timeout callback of the call (messageId, callback)
TimeoutRemoves(tbl, messageId, callback) ==
    /\ messageId \in DOMAIN tbl
    /\ tbl[messageId].h = callback

timeoutCallback(P, t) ==
    LET P1 == [P EXCEPT !.reqs = [@ EXCEPT ![t.rid].fired = TRUE]]
    IN  IF TimeoutRemoves(P.messagesCallbacks, t.id, t.h)
        THEN LET victim == P.messagesCallbacks[t.id].rid
                 P2 == Gone(P1, victim,
                            IF victim = t.rid THEN "timeout" ELSE "stale-timer")
             IN  [P2 EXCEPT !.messagesCallbacks = MapDelete(@, t.id)]
        ELSE P1

\* lines 200-204: the completion callback of the write of a call that
\* supplied a handler
writeCallback(P, w, err) ==
    LET P1 == [P EXCEPT !.reqs = [@ EXCEPT ![w.rid].written =
                                     IF err THEN "err" ELSE "ok"]]
    IN  IF ~err THEN P1
        ELSE IF w.id \in DOMAIN P.messagesCallbacks
        THEN LET victim == P.messagesCallbacks[w.id].rid
                 P2 == Gone(P1, victim,
                            IF victim = w.rid THEN "write" ELSE "stale-write")
             IN  [P2 EXCEPT !.messagesCallbacks = MapDelete(@, w.id)]
        ELSE P1

(***************************************************************************)
(* Listener registry (lines 207-245)                                       *)
(***************************************************************************)
Listener(fn, once) == [fn |-> fn, once |-> once]

on(P, eventName, listener) ==
    LET cur == IF eventName \in DOMAIN P.listeners
               THEN P.listeners[eventName] ELSE <<>>
    IN  [P EXCEPT !.listeners = MapSet(@, eventName, Append(cur, listener))]

off(P, eventName, listener) ==
    IF eventName \notin DOMAIN P.listeners THEN P
    ELSE LET index == IndexOf(P.listeners[eventName], listener)
         IN  IF index = 0 THEN P
             ELSE [P EXCEPT !.listeners[eventName] = RemoveAt(@, index)]

onAllEvents(P, listener) ==
    [P EXCEPT !.allListeners = Append(@, listener)]

offAllEvents(P, listener) ==
    LET index == IndexOf(P.allListeners, listener)
    IN  IF index = 0 THEN P
        ELSE [P EXCEPT !.allListeners = RemoveAt(@, index)]

offAll(P, eventName) ==
    IF eventName \notin DOMAIN P.listeners THEN P
    ELSE [P EXCEPT !.listeners[eventName] = <<>>]

offAllListeners(P) == [P EXCEPT !.listeners = EmptyMap]

(***************************************************************************)
(* What the callbacks of the application do when they are called.  They    *)
(* are inputs of the program: L1, L2, W1, h1 only return; LT, WT and       *)
(* hThrow throw; LX calls off(eventName, L1); WX calls offAllEvents on     *)
(* itself; a once-wrapper (lines 213-216) calls off on itself and then the *)
(* wrapped listener.                                                       *)
(***************************************************************************)
ListenerFns == {"L1", "L2", "LX", "LT"}
WildcardFns == {"W1", "WX", "WT"}
EventNames == {<<"e">>}

runListener(P, eventName, l, s, args) ==
    LET P1 == IF l.once THEN off(P, eventName, l) ELSE P
        P2 == [P1 EXCEPT !.calls =
                 Append(@, Call("listener", l.fn, s, <<>>, args))]
    IN  IF l.fn = "LX" THEN off(P2, eventName, Listener("L1", FALSE)) ELSE P2

runAllListener(P, ev, l, s, args) ==
    LET P1 == [P EXCEPT !.calls = Append(@, Call("all", l.fn, s, ev, args))]
    IN  IF l.fn = "WX" THEN offAllEvents(P1, l) ELSE P1

\* Array.prototype.forEach visits the indices 1..len of the live array, len
\* being its length when the loop began, and skips an index the array no
\* longer has.
\* lines 113-115: k is the next index
RECURSIVE forEachListener(_, _, _, _, _, _)
forEachListener(P, eventName, k, len, s, args) ==
    IF k > len THEN [st |-> P, threw |-> FALSE]
    ELSE IF k > Len(P.listeners[eventName])
        THEN forEachListener(P, eventName, k + 1, len, s, args)
    ELSE LET l == P.listeners[eventName][k]
             P1 == runListener(P, eventName, l, s, args)
         IN  IF Throws(l.fn) THEN [st |-> P1, threw |-> TRUE]
             ELSE forEachListener(P1, eventName, k + 1, len, s, args)

\* lines 109-111
RECURSIVE forEachAllListener(_, _, _, _, _, _)
forEachAllListener(P, ev, k, len, s, args) ==
    IF k > len THEN [st |-> P, threw |-> FALSE]
    ELSE IF k > Len(P.allListeners)
        THEN forEachAllListener(P, ev, k + 1, len, s, args)
    ELSE LET l == P.allListeners[k]
             P1 == runAllListener(P, ev, l, s, args)
         IN  IF Throws(l.fn) THEN [st |-> P1, threw |-> TRUE]
             ELSE forEachAllListener(P1, ev, k + 1, len, s, args)

(***************************************************************************)
(* messageHandler (lines 88-119)                                           *)
(***************************************************************************)
\* callback(...decodedMessage): an array spreads to its elements, a string
\* to its characters; a number or a boolean is not iterable (TypeError)
Spread(j) ==
    IF j.isArr THEN [ok |-> TRUE, args |-> j.arr]
    ELSE IF j.val.t = "str"
        THEN [ok |-> TRUE,
              args |-> [k \in 1..Len(j.val.s) |-> Str(<<j.val.s[k]>>)]]
    ELSE [ok |-> FALSE, args |-> <<>>]

\* lines 60-65: the response handler of the heartbeat probe of socket s; it
\* stores the measured round trip in socket.ping
travelTimeCallback(s) == IF s = "s1" THEN "tt_s1" ELSE "tt_s2"
IsTravelTime(h) == \E s \in Sockets : travelTimeCallback(s) = h
TravelTimeSocket(h) == CHOOSE s \in Sockets : travelTimeCallback(s) = h

\* what the handler h does when a response invokes it for the call rid: the
\* latency stored is written as the number of the call whose round trip
\* was measured
runHandler(P, h, rid) ==
    IF IsTravelTime(h) THEN [P EXCEPT !.sock[TravelTimeSocket(h)].ping = rid]
    ELSE P

\* lines 100-105; ans is history: the pending call the sender of this frame
\* is answering (0: none)
handleResponse(P, messageId, j, s, ans) ==
    IF messageId \notin DOMAIN P.messagesCallbacks THEN P
    ELSE LET e == P.messagesCallbacks[messageId]
             sp == Spread(j)
             P1 == [P EXCEPT
                      !.calls = Append(@, Call("handler", e.h, s, <<>>, sp.args)),
                      !.reqs = [@ EXCEPT ![e.rid].n = IF @ < 2 THEN @ + 1 ELSE @,
                                         ![e.rid].wrong = @ \/ ans \notin {0, e.rid},
                                         ![e.rid].late = @ \/ P.reqs[e.rid].fired]]
         IN  IF ~sp.ok THEN P
             ELSE IF Throws(e.h) THEN P1
             ELSE [Gone(runHandler(P1, e.h, e.rid), e.rid, "response") EXCEPT
                     !.messagesCallbacks = MapDelete(@, messageId)]

\* lines 107-115
handleBroadcast(P, j, s) ==
    IF ~j.isArr THEN P
    ELSE
      LET ev == SubSeq(j.arr, 1, 1)
          args == Tail(j.arr)
          isName == ev # <<>> /\ ev[1].t = "str"
      IN  IF isName /\ ev[1].s = <<"p", "i", "n", "g">>
          THEN sendTo(P, P.sock[s].clientId, <<Str(<<"p", "o", "n", "g">>)>>,
                      NoCallback, 0)
          ELSE
            LET a == forEachAllListener(P, ev, 1, Len(P.allListeners), s, args)
                Q == a.st
            IN  IF a.threw THEN Q
                ELSE IF ~(isName /\ ev[1].s \in DOMAIN Q.listeners) THEN Q
                ELSE forEachListener(Q, ev[1].s, 1, Len(Q.listeners[ev[1].s]),
                                     s, args).st

messageHandler(P, s, message, ans) ==
    LET d == Decode(message)
    IN  IF d.err # "" THEN P
        ELSE IF d.id > 0 THEN handleResponse(P, d.id, d.json, s, ans)
        ELSE handleBroadcast(P, d.json, s)

\* lines 128-135: the 'data' handler of one 'connection' handler
RECURSIVE forEachMessage(_, _, _, _)
forEachMessage(P, s, messages, ans) ==
    IF messages = <<>> THEN P
    ELSE LET P1 == IF Head(messages) = <<>> THEN P
                   ELSE messageHandler(P, s, Head(messages), ans)
         IN  forEachMessage(P1, s, Tail(messages), ans)

dataHandler(P, s, data, ans) == forEachMessage(P, s, SplitMessages(data), ans)

(***************************************************************************)
(* Connection lifecycle (lines 44-86, 121-159)                             *)
(***************************************************************************)
\* the first draw of line 45 taken as it comes, without the loop of 46-48
AnyClientId(cl, u) == TRUE

\* lines 45-48: uuidv4() is redrawn while the registry holds the value
FreshClientId(cl, u) == u \notin DOMAIN cl

\* lines 44-71, u being the identifier the loop ended with
clientConnecHandler(P, s, u) ==
    [P EXCEPT
       !.clients = MapSet(@, u, s),
       !.sock[s].clientId = u,
       !.sock[s].ping = -1,
       !.sock[s].travelTimeInterval = P.sock[s].nh + 1,
       !.sock[s].live = @ \cup {P.sock[s].nh + 1},
       !.sock[s].announced = @ \/ P.connectCallbacks # <<>>,
       !.calls = @ \o [k \in 1..Len(P.connectCallbacks) |->
                         Call("connect", P.connectCallbacks[k], s, <<>>, <<>>)]]

\* lines 124-146: one 'connection' listener: it registers the socket and
\* attaches its own data, end and error handlers
connectionListener(P, s, u) ==
    LET P1 == clientConnecHandler(P, s, u)
    IN  [P1 EXCEPT !.sock[s].nh = @ + 1]

\* every 'connection' listener that start() registered runs, in order
RECURSIVE emitConnection(_, _, _)
emitConnection(P, s, us) ==
    IF us = <<>> THEN P
    ELSE emitConnection(connectionListener(P, s, Head(us)), s, Tail(us))

\* line 74
IsRegistered(P, s) == P.sock[s].clientId \in DOMAIN P.clients

\* lines 75-77: the invocations of the disconnect callbacks in state P, each
\* with what the callback finds on the socket it is handed: its identifier,
\* whether the registry holds the socket under it, its latency and its
\* interval handle
disconnectCalls(P, s, reason) ==
    [k \in 1..Len(P.disconnectCallbacks) |->
        [kind |-> "disconnect", fn |-> P.disconnectCallbacks[k], s |-> s,
         ev |-> <<Str(reason)>>, args |-> <<>>,
         id |-> P.sock[s].clientId,
         reg |-> (/\ P.sock[s].clientId \in DOMAIN P.clients
                  /\ P.clients[P.sock[s].clientId] = s),
         ping |-> P.sock[s].ping,
         timer |-> P.sock[s].travelTimeInterval]]

\* lines 78-85: the socket leaves the registry and its fields are reset
unregister(P, s) ==
    [P EXCEPT
       !.clients = MapDelete(@, P.sock[s].clientId),
       !.sock[s].clientId = "",
       !.sock[s].ping = -1,
       !.sock[s].live = @ \ {P.sock[s].travelTimeInterval},
       !.sock[s].travelTimeInterval = 0]

\* the handler with lines 78-85 placed before the loop of lines 75-77
clientDisconnecHandlerRemovesFirst(P, s, reason) ==
    LET run == P.sock[s].closes + 1
        P0 == [P EXCEPT !.sock[s].closes = run,
                        !.sock[s].fired = @ \cup {run}]
        P1 == unregister(P0, s)
    IN  IF ~IsRegistered(P, s) THEN [P EXCEPT !.sock[s].closes = run]
        ELSE [P1 EXCEPT !.calls = @ \o disconnectCalls(P1, s, reason)]

\* lines 73-86; closes and fired are history: the runs of the handler for
\* this socket, and the runs that invoked the disconnect callbacks
clientDisconnecHandler(P, s, reason) ==
    LET run == P.sock[s].closes + 1
        P0 == [P EXCEPT !.sock[s].closes = run]
        P1 == [P0 EXCEPT !.calls = @ \o disconnectCalls(P0, s, reason),
                         !.sock[s].fired = @ \cup {run}]
    IN  IF ~IsRegistered(P, s) THEN P0
        ELSE unregister(P1, s)

\* lines 54-66: one firing of an interval of socket s; r is the id the
\* loop of lines 182-185 ends with if sendTo is reached
heartbeatTick(P, s, r) ==
    IF ~IsRegistered(P, s)
    THEN [P EXCEPT !.sock[s].live = @ \ {P.sock[s].travelTimeInterval},
                   !.sock[s].travelTimeInterval = 0]
    ELSE sendTo(P, P.sock[s].clientId,
                <<Str(<<"t", "r", "a", "v", "e", "l", "T", "i", "m", "e">>)>>,
                travelTimeCallback(s), r)

\* a transport event reaches the handler of every 'connection' listener
\* that saw the socket
RECURSIVE emitClose(_, _, _, _)
emitClose(P, s, reason, k) ==
    IF k = 0 THEN P
    ELSE emitClose(clientDisconnecHandler(P, s, reason), s, reason, k - 1)

RECURSIVE emitData(_, _, _, _, _)
emitData(P, s, data, ans, k) ==
    IF k = 0 THEN P
    ELSE emitData(dataHandler(P, s, data, ans), s, data, ans, k - 1)

\* lines 121-152 (listen() is taken to succeed at once)
start(P) ==
    IF P.listening THEN P
    ELSE [P EXCEPT !.connHandlers = @ + 1, !.listening = TRUE]

\* lines 154-159
stop(P) ==
    IF ~P.listening THEN P
    ELSE [P EXCEPT !.listening = FALSE, !.clients = EmptyMap]

\* lines 161-172
send(P, message) ==
    IF ~P.listening THEN P
    ELSE LET ids == DOMAIN P.clients
             order == CHOOSE f \in [1..Cardinality(ids) -> ids] :
                         \A a, b \in 1..Cardinality(ids) : a # b => f[a] # f[b]
         IN  [P EXCEPT !.wrote = @ \o [k \in 1..Cardinality(ids) |->
                          [s |-> P.clients[order[k]], text |-> Frame(0, message)]]]

(***************************************************************************)
(* Inputs                                                                  *)
(***************************************************************************)
\* a frame as a client writes it: id, JSON array, delimiter
ResponseChunk(id) == Frame(id, <<Num(5)>>)
EventChunk == Frame(0, <<Str(<<"e">>), Num(7)>>)
PingChunk == Frame(0, <<Str(<<"p", "i", "n", "g">>)>>)
\* "abc[1,2]", the malformed frame of the specification
AbcChunk == <<"a", "b", "c", "[", "1", ",", "2", "]">> \o splitter
\* "x1[5]": no leading digit run, a digit run further on
PrefixedChunk == <<"x">> \o ResponseChunk(1)
\* "1[5" : the JSON text is cut short
CutChunk == <<"1", "[", "5">> \o splitter
\* two frames in one read
DoubleChunk == ResponseChunk(1) \o ResponseChunk(1)

\* "x" before a well-formed broadcast frame
PrefixedEventChunk == <<"x">> \o EventChunk
\* a broadcast frame of an event nothing is registered for
OtherChunk == Frame(0, <<Str(<<"o">>)>>)

ResponseChunks == {ResponseChunk(id) : id \in 1..MaxId}
BroadcastChunks == {EventChunk, OtherChunk, PingChunk, AbcChunk, PrefixedEventChunk}
Chunks ==
    ResponseChunks \cup BroadcastChunks
      \cup {PrefixedChunk, CutChunk, DoubleChunk}

\* the pending calls a client at socket s may be answering with chunk c: a
\* call whose frame was written to s, carrying the id of the frame it
\* received (0: the chunk answers no call)
Answers(s, c) ==
    {0} \cup {rid \in 1..Len(reqs) :
                /\ reqs[rid].s = s
                /\ reqs[rid].written = "ok"
                /\ reqs[rid].id > 0
                /\ c = ResponseChunk(reqs[rid].id)}

\* argument lists given to send and sendTo
Messages == {<<Str(<<"s", "u", "m">>), Num(2), Num(3)>>}

(***************************************************************************)
(* Actions: one per public operation and per event-loop callback           *)
(***************************************************************************)
\* start() where it does not return at line 122
Start ==
    /\ ~listening
    /\ connHandlers < MaxStarts
    /\ Commit(start(Fresh(St)))
    /\ last' = Last("start", "", <<>>, 0, "none")
    /\ cx' = cx

\* stop() where it does not return at line 155
Stop ==
    /\ listening
    /\ Commit(stop(Fresh(St)))
    /\ last' = Last("stop", "", <<>>, 0, "none")
    /\ cx' = cx

\* the server emits 'connection' for a new transport connection
Accept(s) ==
    /\ listening
    /\ ~sock[s].acc
    /\ \E us \in [1..connHandlers -> Uuids] :
          /\ \A a, b \in 1..connHandlers : a # b => us[a] # us[b]
          /\ \A a \in 1..connHandlers : FreshClientId(clients, us[a])
          /\ Commit(emitConnection([Fresh(St) EXCEPT !.sock[s].acc = TRUE], s, us))
    /\ last' = Last("accept", s, <<>>, 0, "none")
    /\ cx' = cx

\* the socket emits 'end'
End(s) ==
    /\ sock[s].acc
    /\ ~sock[s].ended
    /\ Commit(emitClose([Fresh(St) EXCEPT !.sock[s].ended = TRUE], s,
                        <<"e", "n", "d">>, sock[s].nh))
    /\ last' = Last("end", s, <<>>, 0, "none")
    /\ cx' = cx

\* the socket emits 'error'
Error(s) ==
    /\ sock[s].acc
    /\ ~sock[s].errored
    /\ Commit(emitClose([Fresh(St) EXCEPT !.sock[s].errored = TRUE], s,
                        <<"e", "r", "r", "o", "r">>, sock[s].nh))
    /\ last' = Last("error", s, <<>>, 0, "none")
    /\ cx' = cx

OnConnect(cb) ==
    /\ Len(connectCallbacks) < MaxCallbacks
    /\ Commit([Fresh(St) EXCEPT !.connectCallbacks = Append(@, cb)])
    /\ last' = Last("onConnect", "", <<>>, 0, cb)
    /\ cx' = cx

OnDisconnect(cb) ==
    /\ Len(disconnectCallbacks) < MaxCallbacks
    /\ Commit([Fresh(St) EXCEPT !.disconnectCallbacks = Append(@, cb)])
    /\ last' = Last("onDisconnect", "", <<>>, 0, cb)
    /\ cx' = cx

\* sendTo(clientId, ...message, callback)
SendToCallback(clientId, message, callback) ==
    /\ Len(reqs) < MaxRequests
    /\ \E r \in AllocIds(messagesCallbacks) :
          Commit(sendTo(Fresh(St), clientId, message, callback, r))
    /\ last' = Last("sendTo", clientId, JSONstringify(message), 0, callback)
    /\ cx' = cx

\* sendTo(clientId, ...message)
SendToPlain(clientId, message) ==
    /\ Commit(sendTo(Fresh(St), clientId, message, NoCallback, 0))
    /\ last' = Last("sendTo", clientId, JSONstringify(message), 0, NoCallback)
    /\ cx' = cx

Send(message) ==
    /\ Commit(send(Fresh(St), message))
    /\ last' = Last("send", "", JSONstringify(message), 0, "none")
    /\ cx' = cx

\* the socket emits 'data' with one read
Data(s, data, ans) ==
    /\ sock[s].acc
    /\ ~sock[s].ended
    /\ ~sock[s].errored
    /\ Commit(emitData(Fresh(St), s, data, ans, sock[s].nh))
    /\ last' = Last("data", s, data, 0, "none")
    /\ cx' = cx

\* the interval h of socket s fires (lines 54-66)
Tick(s, h) ==
    /\ h \in sock[s].live
    /\ (listening /\ IsRegistered(St, s)) => Len(reqs) < MaxRequests
    /\ \E r \in AllocIds(messagesCallbacks) :
          Commit(heartbeatTick(Fresh(St), s, r))
    /\ last' = Last("tick", s, <<>>, h, "none")
    /\ cx' = cx

\* the oldest timer fires (all timers have the same delay, line 197)
Timeout ==
    /\ timers # <<>>
    /\ Commit(timeoutCallback([Fresh(St) EXCEPT !.timers = Tail(@)], Head(timers)))
    /\ last' = Last("timeout", "", <<>>, Head(timers).rid, Head(timers).h)
    /\ cx' = cx

\* the oldest pending write of a socket completes; it cannot succeed once
\* the socket has failed
WriteDone(k, err) ==
    /\ k \in 1..Len(writes)
    /\ \A i \in 1..(k - 1) : writes[i].s # writes[k].s
    /\ ~err => ~sock[writes[k].s].errored
    /\ Commit(writeCallback([Fresh(St) EXCEPT !.writes = RemoveAt(@, k)],
                            writes[k], err))
    /\ last' = Last("write", writes[k].s, <<>>, writes[k].rid, "none")
    /\ cx' = cx

On(eventName, fn) ==
    /\ IF eventName \in DOMAIN listeners
       THEN Len(listeners[eventName]) < MaxListeners ELSE TRUE
    /\ Commit(on(Fresh(St), eventName, Listener(fn, FALSE)))
    /\ last' = Last("on", "", eventName, 0, fn)
    /\ cx' = cx

\* once(eventName, fn): lines 212-218, the wrapper is what on() receives
Once(eventName, fn) ==
    /\ IF eventName \in DOMAIN listeners
       THEN Len(listeners[eventName]) < MaxListeners ELSE TRUE
    /\ Commit(on(Fresh(St), eventName, Listener(fn, TRUE)))
    /\ last' = Last("once", "", eventName, 0, fn)
    /\ cx' = cx

\* off() where it does not return at line 225 or 228
Off(eventName, fn) ==
    /\ eventName \in DOMAIN listeners
    /\ IndexOf(listeners[eventName], Listener(fn, FALSE)) # 0
    /\ Commit(off(Fresh(St), eventName, Listener(fn, FALSE)))
    /\ last' = Last("off", "", eventName, 0, fn)
    /\ cx' = cx

OnAllEvents(fn) ==
    /\ Len(allListeners) < MaxListeners
    /\ Commit(onAllEvents(Fresh(St), Listener(fn, FALSE)))
    /\ last' = Last("onAllEvents", "", <<>>, 0, fn)
    /\ cx' = cx

\* offAllEvents() where it does not return at line 234
OffAllEvents(fn) ==
    /\ IndexOf(allListeners, Listener(fn, FALSE)) # 0
    /\ Commit(offAllEvents(Fresh(St), Listener(fn, FALSE)))
    /\ last' = Last("offAllEvents", "", <<>>, 0, fn)
    /\ cx' = cx

\* offAll() where it does not return at line 239
OffAll(eventName) ==
    /\ eventName \in DOMAIN listeners
    /\ Commit(offAll(Fresh(St), eventName))
    /\ last' = Last("offAll", "", eventName, 0, "none")
    /\ cx' = cx

OffAllListeners ==
    /\ listeners # EmptyMap
    /\ Commit(offAllListeners(Fresh(St)))
    /\ last' = Last("offAllListeners", "", <<>>, 0, "none")
    /\ cx' = cx

(***************************************************************************)
(* Specifications.  Spec is the whole program.  The others run the same    *)
(* actions from the same initial state with the operations and inputs of   *)
(* one part of the program, which keeps each within reach of the checker.  *)
(***************************************************************************)
Next ==
    \/ Start
    \/ Stop
    \/ \E s \in Sockets : Accept(s)
    \/ \E s \in Sockets : End(s)
    \/ \E s \in Sockets : Error(s)
    \/ \E cb \in {"C1"} : OnConnect(cb)
    \/ \E cb \in {"D1", "D2"} : OnDisconnect(cb)
    \/ \E c \in Uuids, m \in Messages, h \in Handlers : SendToCallback(c, m, h)
    \/ \E c \in Uuids, m \in Messages : SendToPlain(c, m)
    \/ \E m \in Messages : Send(m)
    \/ \E s \in Sockets, c \in Chunks : \E ans \in Answers(s, c) : Data(s, c, ans)
    \/ \E s \in Sockets, h \in 1..MaxStarts : Tick(s, h)
    \/ Timeout
    \/ \E k \in 1..MaxRequests, err \in BOOLEAN : WriteDone(k, err)
    \/ \E e \in EventNames, fn \in ListenerFns : On(e, fn)
    \/ \E e \in EventNames, fn \in ListenerFns : Once(e, fn)
    \/ \E e \in EventNames, fn \in ListenerFns : Off(e, fn)
    \/ \E fn \in WildcardFns : OnAllEvents(fn)
    \/ \E fn \in WildcardFns : OffAllEvents(fn)
    \/ \E e \in EventNames : OffAll(e)
    \/ OffAllListeners

Spec == Init /\ [][Next]_vars

\* request/response calls: sendTo with a handler, responses, timers, writes
NextRpc ==
    \/ Start
    \/ Accept("s1")
    \/ \E c \in DOMAIN clients, m \in Messages, h \in Handlers :
          SendToCallback(c, m, h)
    \/ \E c \in ResponseChunks : \E ans \in Answers("s1", c) : Data("s1", c, ans)
    \/ Timeout
    \/ \E k \in 1..MaxRequests, err \in BOOLEAN : WriteDone(k, err)

SpecRpc == Init /\ [][NextRpc]_vars

\* connection lifecycle: start, stop, accept, end, error and the callbacks
NextLife ==
    \/ Start
    \/ Stop
    \/ \E s \in Sockets : Accept(s)
    \/ \E s \in Sockets : End(s)
    \/ \E s \in Sockets : Error(s)
    \/ \E cb \in {"C1"} : OnConnect(cb)
    \/ \E cb \in {"D1", "D2"} : OnDisconnect(cb)

SpecLife == Init /\ [][NextLife]_vars

\* event dispatch: the listener registry and inbound broadcast frames
NextDispatch ==
    \/ Start
    \/ Accept("s1")
    \/ \E e \in EventNames, fn \in ListenerFns : On(e, fn)
    \/ \E e \in EventNames, fn \in {"L1"} : Once(e, fn)
    \/ \E e \in EventNames, fn \in {"L1"} : Off(e, fn)
    \/ \E fn \in WildcardFns : OnAllEvents(fn)
    \/ \E fn \in {"W1"} : OffAllEvents(fn)
    \/ \E e \in EventNames : OffAll(e)
    \/ OffAllListeners
    \/ \E c \in BroadcastChunks : Data("s1", c, 0)

SpecDispatch == Init /\ [][NextDispatch]_vars

\* sending: send and sendTo to any client id, with the server started and
\* stopped and connections accepted in between
NextSend ==
    \/ Start
    \/ Stop
    \/ \E s \in Sockets : Accept(s)
    \/ \E c \in Uuids, m \in Messages, h \in {"h1"} : SendToCallback(c, m, h)
    \/ \E c \in Uuids, m \in Messages : SendToPlain(c, m)
    \/ \E m \in Messages : Send(m)

SpecSend == Init /\ [][NextSend]_vars

\* the heartbeat: the intervals of one connection, their probes and the
\* responses to them, with the server started and stopped in between
NextHeart ==
    \/ Start
    \/ Stop
    \/ Accept("s1")
    \/ End("s1")
    \/ \E h \in 1..MaxStarts : Tick("s1", h)
    \/ \E c \in ResponseChunks : Data("s1", c, 0)
    \/ Timeout

SpecHeart == Init /\ [][NextHeart]_vars

\* two clients: requests to either, response frames from either
NextCaller ==
    \/ Start
    \/ \E s \in Sockets : Accept(s)
    \/ \E c \in DOMAIN clients, m \in Messages, h \in {"h1"} :
          SendToCallback(c, m, h)
    \/ \E s \in Sockets, c \in ResponseChunks : Data(s, c, 0)

SpecCaller == Init /\ [][NextCaller]_vars

(***************************************************************************)
(* Claims about request/response calls (SpecRpc)                           *)
(***************************************************************************)
Pending(rid) ==
    \E id \in DOMAIN messagesCallbacks : messagesCallbacks[id].rid = rid

\* C1: the handler of a call is invoked at most once, never by a frame that
\* answers another call, and never when its timeout fired before any
\* response.
C1_CorrelationIntegrity ==
    \A rid \in 1..Len(reqs) :
        /\ reqs[rid].n <= 1
        /\ ~reqs[rid].wrong
        /\ ~reqs[rid].late

\* C2: the table has no entry under id 0 and every id allocated for a call
\* with a handler is at least 1.
C2_IdZeroReserved ==
    /\ 0 \notin DOMAIN messagesCallbacks
    /\ \A rid \in 1..Len(reqs) : reqs[rid].id >= 1

\* C3: registering a pending call never replaces one that is still pending.
C3_UniquePendingIds ==
    \A rid \in 1..Len(reqs) : reqs[rid].gone # "replaced"

\* once the timer of a call has fired the handler is not invoked any more
\* (so it is never invoked when no response came before), and the table
\* holds no entry of that call
C4_AfterTimeout ==
    \A rid \in 1..Len(reqs) :
        reqs[rid].fired => (~reqs[rid].late /\ ~Pending(rid))

\* the timer changes the table only by removing the entry of its id, and
\* only when the table maps that id to the same handler object
C4_TimerStep ==
    (last'.op = "timeout" /\ messagesCallbacks' # messagesCallbacks) =>
        LET t == Head(timers)
        IN  /\ t.id \in DOMAIN messagesCallbacks
            /\ messagesCallbacks[t.id].h = t.h
            /\ messagesCallbacks' = MapDelete(messagesCallbacks, t.id)

\* C4: RPC timeout: a handler is never invoked after its timer fired, no
\* entry of the call is left once it fired, and the timer removes an entry
\* only if the table still maps the id to the same handler.
C4_RpcTimeout == []C4_AfterTimeout /\ [][C4_TimerStep]_vars

\* a timer has fired on a call that no response had reached, and removed it
C4_Witness ==
    \E rid \in 1..Len(reqs) :
        /\ reqs[rid].fired
        /\ reqs[rid].gone = "timeout"
        /\ reqs[rid].n = 0
        /\ last.op = "timeout"

(***************************************************************************)
(* The codec on its own: a frame as send/sendTo build it is fed to the     *)
(* receive path of the data handler (split, skip empty pieces, decode).    *)
(***************************************************************************)
\* the longest argument list encoded
MaxArgs == 2

CodecValues ==
    { Str(<<"a">>), Str(splitter), Str(<<"a">> \o splitter \o <<"b">>),
      Str(<<"/", "5">>), Num(0), Num(7), Bool(TRUE), Bool(FALSE) }

ArgLists == UNION {[1..n -> CodecValues] : n \in 0..MaxArgs}

\* lines 131-133: the pieces of a read that reach messageHandler
Pieces(text) == SelectSeq(SplitMessages(text), LAMBDA m : m # <<>>)

\* lines 181-187: the frame written for a message
Encode(messageId, message) ==
    /\ cx.pc = "idle"
    /\ cx' = [pc |-> "sent", id |-> messageId, args |-> message,
              frame |-> Frame(messageId, message), msgs |-> <<>>]
    /\ UNCHANGED <<listening, connHandlers, sock, clients, messagesCallbacks,
                   timers, writes, listeners, allListeners, connectCallbacks,
                   disconnectCallbacks, reqs, calls, wrote, last>>

\* lines 128-135 and 90-98: the messages decoded from a read of that frame
Receive ==
    /\ cx.pc = "sent"
    /\ cx' = [cx EXCEPT !.pc = "received",
                        !.msgs = [k \in 1..Len(Pieces(cx.frame)) |->
                                     Decode(Pieces(cx.frame)[k])]]
    /\ UNCHANGED <<listening, connHandlers, sock, clients, messagesCallbacks,
                   timers, writes, listeners, allListeners, connectCallbacks,
                   disconnectCallbacks, reqs, calls, wrote, last>>

NextCodec ==
    \/ \E messageId \in 0..MaxId : \E message \in ArgLists :
          Encode(messageId, message)
    \/ Receive

SpecCodec == Init /\ [][NextCodec]_vars

(***************************************************************************)
(* The stream: a peer writes complete frames one after the other and the   *)
(* transport delivers their characters in reads of any length; each read   *)
(* goes through the data handler on its own (lines 128-135 keep nothing    *)
(* from one read to the next).                                             *)
(***************************************************************************)
\* frames per stream and reads per stream
MaxFrames == 2
MaxReads == 3

StreamMessages == { <<Str(<<"e">>), Num(7)>>, <<Num(5)>> }

\* the stream of frames with ids ids[k] and arguments ms[k]
RECURSIVE StreamOf(_, _)
StreamOf(ids, ms) ==
    IF ms = <<>> THEN <<>>
    ELSE Frame(Head(ids), Head(ms)) \o StreamOf(Tail(ids), Tail(ms))

\* the peer writes the frames
Transmit(ids, ms) ==
    /\ cx.pc = "idle"
    /\ cx' = [pc |-> "stream",
              sent |-> [k \in 1..Len(ms) |->
                          NatToText(ids[k]) \o JSONstringify(ms[k])],
              rest |-> StreamOf(ids, ms), reads |-> 0, msgs |-> <<>>]
    /\ UNCHANGED <<listening, connHandlers, sock, clients, messagesCallbacks,
                   timers, writes, listeners, allListeners, connectCallbacks,
                   disconnectCallbacks, reqs, calls, wrote, last>>

\* lines 128-134: one 'data' event with the next n characters of the stream;
\* msgs collects the texts passed to messageHandler
Read(n) ==
    /\ cx.pc = "stream"
    /\ n \in 1..Len(cx.rest)
    /\ cx.reads + 1 = MaxReads => n = Len(cx.rest)
    /\ cx' = [cx EXCEPT
                !.pc = IF n = Len(cx.rest) THEN "drained" ELSE "stream",
                !.rest = SubSeq(cx.rest, n + 1, Len(cx.rest)),
                !.reads = @ + 1,
                !.msgs = @ \o Pieces(SubSeq(cx.rest, 1, n))]
    /\ UNCHANGED <<listening, connHandlers, sock, clients, messagesCallbacks,
                   timers, writes, listeners, allListeners, connectCallbacks,
                   disconnectCallbacks, reqs, calls, wrote, last>>

NextStream ==
    \/ \E len \in 1..MaxFrames :
          \E ids \in [1..len -> 0..1], ms \in [1..len -> StreamMessages] :
             Transmit(ids, ms)
    \/ \E n \in 1..Len(IF cx.pc = "stream" THEN cx.rest ELSE <<>>) : Read(n)

SpecStream == Init /\ [][NextStream]_vars

(***************************************************************************)
(* Claims about idempotent disconnect (SpecLife)                           *)
(***************************************************************************)
\* C8: of the runs of the disconnect handler for one connection, only the
\* first invokes the disconnect callbacks.
C8_IdempotentDisconnect ==
    \A s \in Sockets : \A run \in sock[s].fired : run = 1

(***************************************************************************)
(* Claims about dispatch (SpecDispatch).  They are about the step that     *)
(* handles a read holding one message, on a socket with one set of         *)
(* handlers; unprimed variables are the state when the dispatch begins.    *)
(***************************************************************************)
OneMessageStep ==
    /\ last'.op = "data"
    /\ Len(Pieces(last'.text)) = 1
    /\ sock[last'.s].nh = 1

TheMessage == Decode(Pieces(last'.text)[1])

\* the step handles a successfully decoded broadcast frame
BroadcastStep ==
    /\ OneMessageStep
    /\ TheMessage.err = ""
    /\ TheMessage.id = 0
    /\ TheMessage.json.isArr

TheEvent == SubSeq(TheMessage.json.arr, 1, 1)
TheArgs == Tail(TheMessage.json.arr)
IsPing == TheEvent = <<Str(<<"p", "i", "n", "g">>)>>
HasListeners ==
    /\ TheEvent # <<>>
    /\ TheEvent[1].t = "str"
    /\ TheEvent[1].s \in DOMAIN listeners
TheListeners == IF HasListeners THEN listeners[TheEvent[1].s] ELSE <<>>

\* the invocations the claim expects, in its order
ExpectedAll ==
    [k \in 1..Len(allListeners) |->
        Call("all", allListeners[k].fn, last'.s, TheEvent, TheArgs)]
ExpectedNamed ==
    [k \in 1..Len(TheListeners) |->
        Call("listener", TheListeners[k].fn, last'.s, <<>>, TheArgs)]

Count(a, x) == Cardinality({k \in 1..Len(a) : a[k] = x})

\* C5: a decoded broadcast invokes all wildcard listeners, then
\* all listeners of the event, each list in registration order.
C5_DispatchOrder ==
    [][BroadcastStep => calls' = ExpectedAll \o ExpectedNamed]_vars

\* C6: every wildcard listener is invoked for every decoded
\* broadcast frame, whatever its event name.
C6_WildcardAlways ==
    [][BroadcastStep =>
         \A k \in 1..Len(allListeners) :
            Count(calls', ExpectedAll[k]) = Count(ExpectedAll, ExpectedAll[k])]_vars

\* C7: in a dispatch where no listener throws, every listener registered
\* for the event when the dispatch began is invoked exactly once, also when
\* a listener of the dispatch removes itself or another listener.
C7_SnapshotDispatch ==
    [][(/\ BroadcastStep
        /\ ~IsPing
        /\ \A i \in 1..Len(allListeners) : ~Throws(allListeners[i].fn)
        /\ \A i \in 1..Len(TheListeners) : ~Throws(TheListeners[i].fn))
         => \A k \in 1..Len(TheListeners) :
               Count(SelectSeq(calls', LAMBDA c : c.kind = "listener"),
                     ExpectedNamed[k])
                 = Count(ExpectedNamed, ExpectedNamed[k])]_vars

\* the text does not begin with a digit run, or what follows its leading
\* digit run is not valid JSON
Malformed(m) ==
    \/ ~IsDigit(m[1])
    \/ ~JSONparse(SubSeq(m, DigitRunEnd(m, 1) + 1, Len(m))).ok

\* C9: a malformed message is discarded: nothing is invoked, the table is
\* unchanged and the connection stays registered.
C9_MalformedDiscarded ==
    [][(OneMessageStep /\ Malformed(Pieces(last'.text)[1]))
         => /\ calls' = <<>>
            /\ messagesCallbacks' = messagesCallbacks
            /\ clients' = clients
            /\ sock'[last'.s].clientId = sock[last'.s].clientId]_vars

(***************************************************************************)
(* Claims about the codec (SpecCodec)                                      *)
(***************************************************************************)
\* C10: a frame built from an argument list, split on the delimiter and
\* decoded, yields exactly one message, whose arguments are that list.
C10_RoundTrip ==
    cx.pc = "received" =>
        /\ Len(cx.msgs) = 1
        /\ cx.msgs[1].err = ""
        /\ cx.msgs[1].json.isArr
        /\ cx.msgs[1].json.arr = cx.args

(***************************************************************************)
(* Claims about sending (SpecSend)                                         *)
(***************************************************************************)
\* C11: sendTo to a client id that is not registered, or while the server
\* is not listening, writes nothing, adds no table entry and schedules no
\* timeout, with or without a response handler.
C11_SendToNoOp ==
    [][(last'.op = "sendTo" /\ (~listening \/ last'.s \notin DOMAIN clients))
         => /\ wrote' = <<>>
            /\ messagesCallbacks' = messagesCallbacks
            /\ timers' = timers
            /\ writes' = writes
            /\ reqs' = reqs]_vars

\* sendTo with a handler was called for an unregistered id while the server
\* was listening and another client was registered
C11_Witness ==
    /\ last.op = "sendTo"
    /\ last.cb # NoCallback
    /\ listening
    /\ clients # EmptyMap
    /\ last.s \notin DOMAIN clients
    /\ wrote = <<>>

\* the sockets the registry holds
Registered == {clients[c] : c \in DOMAIN clients}

\* C12: send, while the server listens, writes one frame with id 0 and the
\* given arguments to every registered connection and nothing else, and
\* leaves the table unchanged; while it does not listen it writes nothing.
C12_BroadcastSend ==
    [][last'.op = "send"
         => IF listening
            THEN /\ \A s \in Registered :
                       Count(wrote', [s |-> s,
                                      text |-> <<"0">> \o last'.text \o splitter]) = 1
                 /\ Len(wrote') = Cardinality(Registered)
                 /\ messagesCallbacks' = messagesCallbacks
            ELSE wrote' = <<>>]_vars

(***************************************************************************)
(* Claims about the registry (SpecLife)                                    *)
(***************************************************************************)
\* the socket is in the registry under the identifier it carries
RegisteredAs(s) ==
    /\ sock[s].clientId \in DOMAIN clients
    /\ clients[sock[s].clientId] = s

\* an accept gives the socket an identifier the registry did not hold and
\* displaces no entry
C13_AcceptStep ==
    last'.op = "accept" =>
        /\ sock'[last'.s].clientId \notin DOMAIN clients
        /\ \A c \in DOMAIN clients :
              c \in DOMAIN clients' /\ clients'[c] = clients[c]

\* C13: no two registered connections share an identifier, and the
\* identifier an accept assigns differs from those of the connections still
\* registered, none of which it displaces.
C13_UniqueIdentifiers ==
    /\ [](\A s, t \in Sockets :
            (s # t /\ RegisteredAs(s) /\ RegisteredAs(t))
                => sock[s].clientId # sock[t].clientId)
    /\ [][C13_AcceptStep]_vars

\* a second connection has been accepted while the first was registered
C13_Witness ==
    /\ last.op = "accept"
    /\ \E s, t \in Sockets : s # t /\ RegisteredAs(s) /\ RegisteredAs(t)

(***************************************************************************)
(* Claims about the stream (SpecStream)                                    *)
(***************************************************************************)
\* C14: however the stream of complete frames is cut into reads, the texts
\* handed to the decoder are the frames sent, in order.
C14_StreamFraming ==
    cx.pc = "drained" => cx.msgs = cx.sent

(***************************************************************************)
(* Claims about responses (SpecRpc)                                        *)
(***************************************************************************)
\* the step handles one successfully decoded frame with a positive id
ResponseStep ==
    /\ OneMessageStep
    /\ TheMessage.err = ""
    /\ TheMessage.id > 0
    /\ TheMessage.json.isArr

\* C15: a response frame whose id is in the table invokes the handler with
\* the decoded arguments and leaves the table without that id; one whose id
\* is not in the table invokes nothing and leaves the table unchanged.
C15_ResponseHandling ==
    [][ResponseStep =>
         IF TheMessage.id \in DOMAIN messagesCallbacks
         THEN /\ calls' = <<Call("handler", messagesCallbacks[TheMessage.id].h,
                                 last'.s, <<>>, TheMessage.json.arr)>>
              /\ TheMessage.id \notin DOMAIN messagesCallbacks'
         ELSE /\ calls' = <<>>
              /\ messagesCallbacks' = messagesCallbacks]_vars

(***************************************************************************)
(* Claims about disconnection (SpecLife)                                   *)
(***************************************************************************)
ReasonOf(op) ==
    IF op = "end" THEN <<"e", "n", "d">> ELSE <<"e", "r", "r", "o", "r">>

C17_TickStep ==
    last'.op = "tick" =>
        /\ IF ~RegisteredAs(last'.s)
           THEN /\ wrote' = <<>>
                /\ messagesCallbacks' = messagesCallbacks
                /\ last'.rid \notin sock'[last'.s].live
           ELSE /\ Len(wrote') = 1
                /\ wrote'[1].s = last'.s
                /\ \E id \in DOMAIN messagesCallbacks' :
                      /\ messagesCallbacks'[id].h = travelTimeCallback(last'.s)
                      /\ messagesCallbacks'[id].rid = Len(reqs')
                      /\ Len(reqs') = Len(reqs) + 1
        /\ clients' = clients
        /\ \A s \in Sockets : /\ sock'[s].ended = sock[s].ended
                              /\ sock'[s].errored = sock[s].errored
                              /\ sock'[s].clientId = sock[s].clientId

\* the response to a probe stores the round trip of that probe as the
\* latency of the connection
C17_ResponseStep ==
    (/\ ResponseStep
     /\ TheMessage.id \in DOMAIN messagesCallbacks
     /\ IsTravelTime(messagesCallbacks[TheMessage.id].h))
        => sock'[last'.s].ping = messagesCallbacks[TheMessage.id].rid

\* C17: a heartbeat tick for an unregistered connection sends no probe and
\* cancels its timer for good; a tick for a registered connection sends a
\* probe whose response records the round trip as the latency; the
\* heartbeat never terminates a connection.
C17_Heartbeat == [][C17_TickStep /\ C17_ResponseStep]_vars

\* the identifiers the registry holds the socket under
IdsOf(s) == {c \in DOMAIN clients : clients[c] = s}

\* C18: every registry entry id -> connection has connection.clientId = id,
\* and while the server listens every accepted connection that has not
\* closed is registered under exactly one identifier.
C18_RegistryConsistency ==
    /\ \A c \in DOMAIN clients : sock[clients[c]].clientId = c
    /\ \A s \in Sockets :
          (listening /\ sock[s].acc /\ ~sock[s].ended /\ ~sock[s].errored)
              => Cardinality(IdsOf(s)) = 1

(***************************************************************************)
(* Claims about the sender of a response (SpecCaller)                      *)
(***************************************************************************)
\* C19: a frame that carries the id of a pending call and comes from a
\* connection other than the one the request was sent to neither invokes
\* the handler nor removes the entry.
C19_RightCaller ==
    [][(/\ ResponseStep
        /\ TheMessage.id \in DOMAIN messagesCallbacks
        /\ reqs[messagesCallbacks[TheMessage.id].rid].s # last'.s)
         => /\ calls' = <<>>
            /\ messagesCallbacks' = messagesCallbacks]_vars

(***************************************************************************)
(* Claims about the removal of pending calls (SpecRpc)                     *)
(***************************************************************************)
\* C20: no pending call is removed from the table by the timer or by the
\* write-error callback of another call that used the same id.
C20_NoCrossRemoval ==
    \A rid \in 1..Len(reqs) : reqs[rid].gone \notin {"stale-timer", "stale-write"}

(***************************************************************************)
(* Claims about the pairing of connect and disconnect (SpecLife)           *)
(***************************************************************************)
\* C21: a connection that a connect callback was invoked with and whose
\* transport has reported 'end' or 'error' has had exactly one run of the
\* disconnect handler that invoked the disconnect callbacks.
C21_LifecyclePairing ==
    \A s \in Sockets :
        (sock[s].announced /\ (sock[s].ended \/ sock[s].errored))
            => Cardinality(sock[s].fired) = 1

=============================================================================
